---- MODULE Spec2Model ----
(***************************************************************************)
(* Model of crawl.py: the two vendor adapters (crawl_boulderado,           *)
(* crawl_webclimber), the dispatcher crawl_site, the point builder         *)
(* create_point_message and the loop of main, with the configparser call   *)
(* of each iteration.                                                      *)
(*                                                                         *)
(* A Python str is the sequence of its Unicode code points, so that strip, *)
(* split, int and the interpolation of configparser are computed the way   *)
(* Python computes them, for every character a page or config.ini can      *)
(* hold.  Str gives the code points of a literal of printable ASCII.       *)
(* The whitespace and digit tables are those of Python 3.11 (Unicode 14).  *)
(*                                                                         *)
(* A raised exception is an outcome record with ok = FALSE and the name of *)
(* the exception class in exc.                                             *)
(*                                                                         *)
(* An intermediate value that the code computes once and reads several     *)
(* times is bound once as the element of a singleton set                   *)
(* (CHOOSE r \in {F(v) : v \in {e}} : TRUE is F of the value of e).         *)
(***************************************************************************)
EXTENDS Integers, Sequences, FiniteSets, TLC

VARIABLES
    sites,      \* config.sections() after the Influx section is popped
    config,     \* site name -> its section of config.ini, values as written
    web,        \* site name -> what requests.get answers for that site
    pc,         \* position of main: "loop", "done" or "raised"
    idx,        \* 1-based position of the for loop in sites
    messages,   \* the list main appends points to
    dispatched, \* site names handed to crawl_site, in call order
    fetched,    \* URLs handed to requests.get, in call order
    stderr,     \* the "failed to crawl site" lines
    written,    \* batches handed to influx_client.write_points
    raised,     \* class of the exception that left main, "" when none did
    call        \* inputs and outcome of the latest call of crawl_site

vars == <<sites, config, web, pc, idx, messages, dispatched, fetched, stderr,
          written, raised, call>>

----------------------------------------------------------------------------
(* Python str values                                                       *)

\* the printable ASCII characters at their code points less 31 (32 to 126);
\* the quotation mark (34), the backslash (92) and the grave accent (96)
\* have no entry
Ascii ==
    <<" ", "!", "", "#", "$", "%", "&", "'", "(", ")", "*", "+", ",", "-",
      ".", "/", "0", "1", "2", "3", "4", "5", "6", "7", "8", "9", ":", ";",
      "<", "=", ">", "?", "@", "A", "B", "C", "D", "E", "F", "G", "H", "I",
      "J", "K", "L", "M", "N", "O", "P", "Q", "R", "S", "T", "U", "V", "W",
      "X", "Y", "Z", "[", "", "]", "^", "_", "", "a", "b", "c", "d", "e",
      "f", "g", "h", "i", "j", "k", "l", "m", "n", "o", "p", "q", "r", "s",
      "t", "u", "v", "w", "x", "y", "z", "{", "|", "}", "~">>

\* ord(ch)
Ord(ch) == 31 + CHOOSE k \in 1..Len(Ascii) : Ascii[k] = ch

\* the str of a literal, given character by character
RECURSIVE Str(_)
Str(chars) ==
    IF chars = <<>> THEN <<>> ELSE <<Ord(Head(chars))>> \o Str(Tail(chars))

Plus       == Ord("+")
Minus      == Ord("-")
Underscore == Ord("_")
Colon      == Ord(":")
Semicolon  == Ord(";")
Percent    == Ord("%")
LeftParen  == Ord("(")
RightParen == Ord(")")
LetterS    == Ord("s")

\* str.isspace() of one character: what strip() and split() take as
\* whitespace
IsSpace(c) ==
    \/ c \in 9..13
    \/ c \in 28..32
    \/ c \in {133, 160, 5760}
    \/ c \in 8192..8202
    \/ c \in {8232, 8233, 8239, 8287, 12288}

\* the whitespace int() skips around a literal: not the separators 28..31
IsIntSpace(c) == IsSpace(c) /\ c \notin 28..31

\* the code points of the digit zero of every decimal digit script
\* (category Nd); the ten digits of a script follow each other
NdZeros ==
    {48, 1632, 1776, 1984, 2406, 2534, 2662, 2790, 2918, 3046, 3174, 3302,
     3430, 3558, 3664, 3792, 3872, 4160, 4240, 6112, 6160, 6470, 6608, 6784,
     6800, 6992, 7088, 7232, 7248, 42528, 43216, 43264, 43472, 43504, 43600,
     44016, 65296, 66720, 68912, 69734, 69872, 69942, 70096, 70384, 70736,
     70864, 71248, 71360, 71472, 71904, 72016, 72784, 73040, 73120, 92768,
     92864, 93008, 120782, 120792, 120802, 120812, 120822, 123200, 123632,
     125264, 130032}

IsDigit(c) == \E z \in NdZeros : c \in z..(z + 9)

\* the value of a decimal digit
DigitVal(c) == c - (CHOOSE z \in NdZeros : c \in z..(z + 9))

RECURSIVE LStrip(_)
LStrip(s) ==
    IF s # <<>> /\ IsSpace(Head(s)) THEN LStrip(Tail(s)) ELSE s

RECURSIVE RStrip(_)
RStrip(s) ==
    IF s # <<>> /\ IsSpace(s[Len(s)])
    THEN RStrip(SubSeq(s, 1, Len(s) - 1))
    ELSE s

\* str.strip()
PyStrip(s) == RStrip(LStrip(s))

\* str.split(): split on runs of whitespace, no empty tokens
RECURSIVE SplitWsFrom(_, _, _)
SplitWsFrom(s, cur, acc) ==
    IF s = <<>>
    THEN IF cur = <<>> THEN acc ELSE Append(acc, cur)
    ELSE IF IsSpace(Head(s))
         THEN SplitWsFrom(Tail(s), <<>>,
                          IF cur = <<>> THEN acc ELSE Append(acc, cur))
         ELSE SplitWsFrom(Tail(s), Append(cur, Head(s)), acc)

PySplitWs(s) == SplitWsFrom(s, <<>>, <<>>)

\* str.split(sep) for a one-character sep: always at least one piece
RECURSIVE SplitSepFrom(_, _, _, _)
SplitSepFrom(s, sep, cur, acc) ==
    IF s = <<>>
    THEN Append(acc, cur)
    ELSE IF Head(s) = sep
         THEN SplitSepFrom(Tail(s), sep, <<>>, Append(acc, cur))
         ELSE SplitSepFrom(Tail(s), sep, Append(cur, Head(s)), acc)

PySplit(s, sep) == SplitSepFrom(s, sep, <<>>, <<>>)

\* s[:-1]
DropLast(s) == IF s = <<>> THEN <<>> ELSE SubSeq(s, 1, Len(s) - 1)

\* str.find(c) + 1 from position k on: the first position of c, 0 for none
RECURSIVE FindFrom(_, _, _)
FindFrom(s, c, k) ==
    IF k > Len(s) THEN 0
    ELSE IF s[k] = c THEN k ELSE FindFrom(s, c, k + 1)

Find(s, c) == FindFrom(s, c, 1)

\* the whitespace int() strips from both ends
RECURSIVE IntLStrip(_)
IntLStrip(s) ==
    IF s # <<>> /\ IsIntSpace(Head(s)) THEN IntLStrip(Tail(s)) ELSE s

RECURSIVE IntRStrip(_)
IntRStrip(s) ==
    IF s # <<>> /\ IsIntSpace(s[Len(s)])
    THEN IntRStrip(SubSeq(s, 1, Len(s) - 1))
    ELSE s

\* the digits of an int literal: decimal digits of any script, single
\* underscores between digits, at most 4300 digits (the default of
\* sys.set_int_max_str_digits)
DigitsOk(d) ==
    /\ d # <<>>
    /\ IsDigit(d[1])
    /\ IsDigit(d[Len(d)])
    /\ \A k \in 1..Len(d) : IsDigit(d[k]) \/ d[k] = Underscore
    /\ \A k \in 1..(Len(d) - 1) : ~(d[k] = Underscore /\ d[k + 1] = Underscore)
    /\ Len(SelectSeq(d, IsDigit)) <= 4300

RECURSIVE DigitsValue(_, _)
DigitsValue(d, acc) ==
    IF d = <<>> THEN acc
    ELSE IF Head(d) = Underscore THEN DigitsValue(Tail(d), acc)
         ELSE DigitsValue(Tail(d), 10 * acc + DigitVal(Head(d)))

\* int(s): ok = FALSE stands for ValueError
IntOfDigits(negative, d) ==
    IF DigitsOk(d)
    THEN [ok  |-> TRUE,
          val |-> IF negative THEN 0 - DigitsValue(d, 0)
                  ELSE DigitsValue(d, 0)]
    ELSE [ok |-> FALSE, val |-> 0]

PyInt(s) ==
    CHOOSE r \in
        {IF t # <<>> /\ Head(t) \in {Plus, Minus}
         THEN IntOfDigits(Head(t) = Minus, Tail(t))
         ELSE IntOfDigits(FALSE, t) : t \in {IntRStrip(IntLStrip(s))}} : TRUE

\* a // b
PyFloorDiv(a, b) == IF b > 0 THEN a \div b ELSE (0 - a) \div (0 - b)

\* s.startswith(prefix)
StartsWith(s, prefix) ==
    Len(prefix) <= Len(s) /\ SubSeq(s, 1, Len(prefix)) = prefix

\* word in s
Contains(s, word) ==
    \E k \in 0..(Len(s) - Len(word)) : SubSeq(s, k + 1, k + Len(word)) = word

----------------------------------------------------------------------------
(* Outcomes of a call: a returned CrawlResult or a raised exception        *)

\* str(error) of an exception a library raised is left open
NoText == [known |-> FALSE, text |-> <<>>]

\* str(error) of an exception the code raises with a message of its own
Text(t) == [known |-> TRUE, text |-> t]

Return(free, active, urls) ==
    [ok |-> TRUE, free |-> free, active |-> active,
     exc |-> "", msg |-> NoText, urls |-> urls]

Raise(exc, msg, urls) ==
    [ok |-> FALSE, free |-> 0, active |-> 0,
     exc |-> exc, msg |-> msg, urls |-> urls]

----------------------------------------------------------------------------
(* The options of a site's section, as dict keys                           *)

KeyType     == Str(<<"t", "y", "p", "e">>)
KeyToken    == Str(<<"t", "o", "k", "e", "n">>)
KeyClientid == Str(<<"c", "l", "i", "e", "n", "t", "i", "d">>)
KeyLocation == Str(<<"l", "o", "c", "a", "t", "i", "o", "n">>)
KeyArea     == Str(<<"a", "r", "e", "a">>)

----------------------------------------------------------------------------
(* crawl_boulderado                                                        *)

BoulderadoPrefix ==
    Str(<<"h", "t", "t", "p", "s", ":", "/", "/", "w", "w", "w", ".", "b",
            "o", "u", "l", "d", "e", "r", "a", "d", "o", ".", "d", "e", "/",
            "b", "o", "u", "l", "d", "e", "r", "a", "d", "o", "w", "e", "b",
            "/", "g", "y", "m", "-", "c", "l", "i", "e", "n", "t", "c", "o",
            "u", "n", "t", "e", "r", "/", "i", "n", "d", "e", "x", ".", "p",
            "h", "p", "?", "m", "o", "d", "e", "=", "g", "e", "t", "&", "t",
            "o", "k", "e", "n", "=">>)

BoulderadoUrl(token) == BoulderadoPrefix \o token

\* one pass of the loop body: find the div, find its span, int() its text
count_of(elem) ==
    IF ~elem.found THEN [exc |-> "AttributeError", val |-> 0]
    ELSE IF ~elem.span THEN [exc |-> "AttributeError", val |-> 0]
    ELSE CHOOSE r \in
            {IF p.ok THEN [exc |-> "", val |-> p.val]
             ELSE [exc |-> "ValueError", val |-> 0] :
                p \in {PyInt(elem.text)}} : TRUE

boulderado_result_swapped(data) == [free |-> data.act, active |-> data.free]

\* the dict of the return statement
boulderado_result(data) == [free |-> data.free, active |-> data.act]

crawl_boulderado(site_config, resp) ==
    IF KeyToken \notin DOMAIN site_config THEN Raise("KeyError", NoText, <<>>)
    ELSE
    LET urls == <<BoulderadoUrl(site_config[KeyToken])>>
    IN  IF ~resp.ok THEN Raise("ConnectionError", NoText, urls)
        ELSE
        CHOOSE r \in
            {IF act.exc # "" THEN Raise(act.exc, NoText, urls)
             ELSE IF free.exc # "" THEN Raise(free.exc, NoText, urls)
             ELSE Return(
                    boulderado_result([act |-> act.val,
                            free |-> free.val]).free,
                    boulderado_result([act |-> act.val,
                            free |-> free.val]).active,
                    urls) :
                act \in {count_of(resp.page.act)},
                free \in {count_of(resp.page.free)}} : TRUE

----------------------------------------------------------------------------
(* crawl_webclimber                                                        *)

Https == Str(<<"h", "t", "t", "p", "s", ":", "/", "/">>)

WebclimberSuffix == Str(<<".", "w", "e", "b", "c", "l", "i", "m", "b", "e",
        "r", ".", "d", "e", "/", "d", "e", "/", "t", "r", "a", "f", "f", "i",
        "c", "l", "i", "g", "h", "t", "?", "k", "e", "y", "=">>)

WebclimberUrl(clientid, token) ==
    Https \o clientid \o WebclimberSuffix \o token

\* free_slots after the try/except: -1 when the first token is no integer
free_slots_of(status) ==
    IF ~status.found THEN [exc |-> "AttributeError", val |-> 0]
    ELSE
    CHOOSE r \in
        {IF tokens = <<>> THEN [exc |-> "IndexError", val |-> 0]
         ELSE CHOOSE q \in
            {[exc |-> "", val |-> IF p.ok THEN p.val ELSE -1] :
                p \in {PyInt(tokens[1])}} : TRUE :
            tokens \in {PySplitWs(PyStrip(status.text))}} : TRUE

WidthKey == Str(<<"w", "i", "d", "t", "h">>)

\* x.split(":") of one piece of the style attribute
KeyValue(x) == PySplit(x, Colon)

\* dict(...) raises ValueError unless every piece splits into two
RECURSIVE AllKeyValue(_)
AllKeyValue(pieces) ==
    \/ pieces = <<>>
    \/ (Len(KeyValue(Head(pieces))) = 2 /\ AllKeyValue(Tail(pieces)))

\* d[key] of the dict built from the pieces: the last piece with that key
RECURSIVE DictGet(_, _)
DictGet(pieces, key) ==
    IF pieces = <<>> THEN [found |-> FALSE, val |-> <<>>]
    ELSE IF KeyValue(pieces[Len(pieces)])[1] = key
         THEN [found |-> TRUE, val |-> KeyValue(pieces[Len(pieces)])[2]]
         ELSE DictGet(DropLast(pieces), key)

\* bar_width: the style attribute split into a dict, its width without the
\* last character, as an int
bar_width_of(bar) ==
    IF ~bar.found THEN [exc |-> "TypeError", val |-> 0]
    ELSE IF ~bar.has_style THEN [exc |-> "KeyError", val |-> 0]
    ELSE
    CHOOSE r \in
        {IF ~AllKeyValue(style_attr_strs)
         THEN [exc |-> "ValueError", val |-> 0]
         ELSE CHOOSE q \in
            {IF ~width.found THEN [exc |-> "KeyError", val |-> 0]
             ELSE CHOOSE w \in
                {IF p.ok THEN [exc |-> "", val |-> p.val]
                 ELSE [exc |-> "ValueError", val |-> 0] :
                    p \in {PyInt(DropLast(PyStrip(width.val)))}} : TRUE :
                width \in {DictGet(style_attr_strs, WidthKey)}} : TRUE :
            style_attr_strs \in {PySplit(bar.style, Semicolon)}} : TRUE

branch_a_inverted(bar_width) == [total |-> 100, free |-> bar_width]

\* the branch taken when free_slots is -1
branch_a(bar_width) == [total |-> 100, free |-> 100 - bar_width]

\* total_slots, free_slots and active_slots from free_slots and bar_width
reconcile(free_slots, bar_width) ==
    IF free_slots = -1
    THEN LET a == branch_a(bar_width)
         IN  [exc |-> "", free |-> a.free, active |-> a.total - a.free]
    ELSE IF bar_width = 0
         THEN [exc |-> "ZeroDivisionError", free |-> 0, active |-> 0]
         ELSE LET total_slots == PyFloorDiv(free_slots, bar_width) * 100
              IN  [exc |-> "", free |-> free_slots,
                   active |-> total_slots - free_slots]

crawl_webclimber(site_config, resp) ==
    IF KeyClientid \notin DOMAIN site_config
          \/ KeyToken \notin DOMAIN site_config
    THEN Raise("KeyError", NoText, <<>>)
    ELSE
    LET urls == <<WebclimberUrl(site_config[KeyClientid],
                                site_config[KeyToken])>>
    IN  IF ~resp.ok THEN Raise("ConnectionError", NoText, urls)
        ELSE
        CHOOSE out \in
            {IF fs.exc # "" THEN Raise(fs.exc, NoText, urls)
             ELSE IF bw.exc # "" THEN Raise(bw.exc, NoText, urls)
             ELSE CHOOSE ret \in
                {IF r.exc # "" THEN Raise(r.exc, NoText, urls)
                 ELSE Return(r.free, r.active, urls) :
                    r \in {reconcile(fs.val, bw.val)}} : TRUE :
                fs \in {free_slots_of(resp.page.status)},
                bw \in {bar_width_of(resp.page.bar)}} : TRUE

----------------------------------------------------------------------------
(* crawl_site                                                              *)

TypeBoulderado == Str(<<"b", "o", "u", "l", "d", "e", "r", "a", "d", "o">>)
TypeWebclimber == Str(<<"w", "e", "b", "c", "l", "i", "m", "b", "e", "r">>)

UnknownTypeMessage(other, site_name) ==
    Str(<<"u", "n", "k", "n", "o", "w", "n", " ", "b", "o", "u", "l", "d",
            "e", "r", " ", "a", "r", "e", "n", "a", " ", "t", "y", "p", "e",
            ":", " ">>) \o other \o Str(<<" ", "f", "o", "r", " ", "s", "i",
            "t", "e", " ">>) \o site_name
        \o Str(<<".">>)

crawl_site_default_boulderado(site_name, site_config, resp) ==
    IF KeyType \notin DOMAIN site_config THEN Raise("KeyError", NoText, <<>>)
    ELSE IF site_config[KeyType] = TypeWebclimber
         THEN crawl_webclimber(site_config, resp)
         ELSE crawl_boulderado(site_config, resp)

crawl_site(site_name, site_config, resp) ==
    IF KeyType \notin DOMAIN site_config THEN Raise("KeyError", NoText, <<>>)
    ELSE IF site_config[KeyType] = TypeBoulderado
         THEN crawl_boulderado(site_config, resp)
    ELSE IF site_config[KeyType] = TypeWebclimber
         THEN crawl_webclimber(site_config, resp)
    ELSE Raise("ValueError",
               Text(UnknownTypeMessage(site_config[KeyType], site_name)),
               <<>>)

----------------------------------------------------------------------------
(* create_point_message                                                    *)

Measurement == Str(<<"b", "o", "u", "l", "d", "e", "r", "_", "c", "e", "n",
        "t", "e", "r", "_", "u", "t", "i", "l", "i", "z", "a", "t", "i", "o",
        "n">>)

create_point_message_no_default(site_name, site_config, data, now) ==
    [measurement |-> Measurement,
     tags   |-> IF KeyArea \in DOMAIN site_config
                THEN [location |-> site_name, area |-> site_config[KeyArea]]
                ELSE [location |-> site_name],
     time   |-> now,
     fields |-> [free |-> data.free, active |-> data.active]]

\* now is what datetime.utcnow().isoformat() answers during the call
create_point_message(site_name, site_config, data, now) ==
    LET location == IF KeyLocation \in DOMAIN site_config
                    THEN site_config[KeyLocation] ELSE site_name
    IN  [measurement |-> Measurement,
         tags   |-> IF KeyArea \in DOMAIN site_config
                    THEN [location |-> location,
                          area |-> site_config[KeyArea]]
                    ELSE [location |-> location],
         time   |-> now,
         fields |-> [free |-> data.free, active |-> data.active]]

----------------------------------------------------------------------------
(* config.items(site_name): the options of the section in file order, each *)
(* value run through configparser's BasicInterpolation                     *)

Option(key, raw) == [key |-> key, raw |-> raw]

Interpolated(val) == [exc |-> "", val |-> val]
InterpolationError(exc) == [exc |-> exc, val |-> <<>>]

\* c.lower() = a for a character a of an ASCII option name
LowersTo(c, a) ==
    \/ (c = a /\ a \notin 65..90)
    \/ (a \in 97..122 /\ c = a - 32)
    \/ (a = 107 /\ c = 8490)

\* optionxform(name) = key: option names are stored lowercased
RefersTo(name, key) ==
    /\ Len(name) = Len(key)
    /\ \A k \in 1..Len(key) : LowersTo(name[k], key[k])

\* map[optionxform(name)] over the options of the section
RECURSIVE Lookup(_, _)
Lookup(section, name) ==
    IF section = <<>> THEN [found |-> FALSE, raw |-> <<>>]
    ELSE IF RefersTo(name, Head(section).key)
         THEN [found |-> TRUE, raw |-> Head(section).raw]
         ELSE Lookup(Tail(section), name)

RECURSIVE interpolate_some(_, _, _, _)
RECURSIVE interpolate_loop(_, _, _, _)

\* the reference %(name)s was matched; rest is what follows it
interpolate_ref(accum, name, rest, section, depth) ==
    CHOOSE r \in
        {IF ~opt.found
         THEN InterpolationError("InterpolationMissingOptionError")
         ELSE IF Find(opt.raw, Percent) # 0
              THEN CHOOSE q \in
                    {IF inner.exc # "" THEN inner
                     ELSE interpolate_loop(inner.val, rest, section, depth) :
                        inner \in {interpolate_some(accum, opt.raw, section,
                                                    depth + 1)}} : TRUE
              ELSE interpolate_loop(accum \o opt.raw, rest, section, depth) :
            opt \in {Lookup(section, name)}} : TRUE

\* at starts with the "%" the loop found
interpolate_at(accum, at, section, depth) ==
    IF Len(at) >= 2 /\ at[2] = Percent
    THEN interpolate_loop(Append(accum, Percent), SubSeq(at, 3, Len(at)),
                          section, depth)
    ELSE IF Len(at) >= 2 /\ at[2] = LeftParen
    THEN CHOOSE r \in
            {IF close < 4 \/ close = Len(at) \/ at[close + 1] # LetterS
             THEN InterpolationError("InterpolationSyntaxError")
             ELSE interpolate_ref(accum, SubSeq(at, 3, close - 1),
                                  SubSeq(at, close + 2, Len(at)),
                                  section, depth) :
                close \in {Find(at, RightParen)}} : TRUE
    ELSE InterpolationError("InterpolationSyntaxError")

\* the while loop of _interpolate_some
interpolate_loop(accum, rest, section, depth) ==
    CHOOSE r \in
        {IF p = 0 THEN Interpolated(accum \o rest)
         ELSE interpolate_at(accum \o SubSeq(rest, 1, p - 1),
                             SubSeq(rest, p, Len(rest)), section, depth) :
            p \in {Find(rest, Percent)}} : TRUE

\* _interpolate_some: MAX_INTERPOLATION_DEPTH is 10
interpolate_some(accum, rest, section, depth) ==
    IF depth > 10 THEN InterpolationError("InterpolationDepthError")
    ELSE interpolate_loop(accum, rest, section, depth)

before_get(section, value) == interpolate_some(<<>>, value, section, 1)

\* the dict of the (option, value) pairs, or the first exception a value
\* raises
RECURSIVE items_from(_, _, _)
items_from(section, k, acc) ==
    IF k > Len(section) THEN [exc |-> "", dict |-> acc]
    ELSE CHOOSE r \in
            {IF v.exc # "" THEN [exc |-> v.exc, dict |-> <<>>]
             ELSE items_from(section, k + 1,
                             (section[k].key :> v.val) @@ acc) :
                v \in {before_get(section, section[k].raw)}} : TRUE

items(section) == items_from(section, 1, <<>>)

----------------------------------------------------------------------------
(* Inputs: sections of config.ini and answers of the crawled sites         *)

MaxSites == 3

AllSiteNames ==
    <<Str(<<"b", "l", "o", "c", "k", "h", "e", "l", "d", "e", "n">>),
            Str(<<"c", "a", "f", "e", "-", "k", "r", "a", "f", "t">>),
            Str(<<"b", "o", "u", "l", "d", "e", "r", "w", "e", "l", "t">>),
            Str(<<"s", "t", "e", "i", "l">>),
      Str(<<"r", "o", "c", "k", "e", "r", "e", "i">>)>>

SiteNameSet(k) == {AllSiteNames[j] : j \in 1..k}

SingleNames == {AllSiteNames[1]}

Times == {Str(<<"2", "0", "2", "6", "-", "1", "0", "-", "3", "1", "T", "0",
        "2", ":", "4", "5", ":", "0", "0", ".", "0", "0", "0", "0", "0",
        "1">>), Str(<<"2", "0", "2", "6", "-", "1", "0", "-", "3", "1", "T",
        "0", "2", ":", "4", "5", ":", "0", "0", ".", "2", "5", "0", "0", "0",
        "0">>)}

TypeKletterhalle == Str(<<"k", "l", "e", "t", "t", "e", "r", "h", "a", "l",
        "l", "e">>)
Token     == Str(<<"t", "0", "k", "3", "n">>)
Clientid  == Str(<<"1", "6", "8">>)
Erlangen  == Str(<<"E", "r", "l", "a", "n", "g", "e", "n">>)
Boulder   == Str(<<"b", "o", "u", "l", "d", "e", "r">>)

\* values BasicInterpolation rejects or rewrites
TokenOff     == Str(<<"5", "0", "%", "o", "f", "f">>)
Area100      == Str(<<"1", "0", "0", "%">>)
Area100Esc   == Str(<<"1", "0", "0", "%", "%">>)
AreaOfLoc    == Str(<<"%", "(", "L", "O", "C", "A", "T", "I", "O", "N", ")",
        "s", "-", "h", "a", "l", "l", "e">>)
AreaOfItself == Str(<<"%", "(", "a", "r", "e", "a", ")", "s">>)

TypeLines ==
    {<<>>} \cup {<<Option(KeyType, t)>> :
                    t \in {TypeBoulderado, TypeWebclimber, TypeKletterhalle}}

TokenLines == {<<>>} \cup {<<Option(KeyToken, v)>> : v \in {Token, TokenOff}}

ClientidLines == {<<>>, <<Option(KeyClientid, Clientid)>>}

LocationLines == {<<>>, <<Option(KeyLocation, Erlangen)>>}

AreaLines ==
    {<<>>} \cup {<<Option(KeyArea, v)>> :
                    v \in {Boulder, Area100, Area100Esc, AreaOfLoc,
                           AreaOfItself}}

\* a section whose first bad value is not the one of the usual order
AreaFirst ==
    <<Option(KeyArea, AreaOfItself), Option(KeyType, TypeBoulderado),
      Option(KeyToken, TokenOff)>>

\* every section of the options the code reads, each present or not
SiteConfigs ==
    {ty \o to \o cl \o lo \o ar :
        ty \in TypeLines, to \in TokenLines, cl \in ClientidLines,
        lo \in LocationLines, ar \in AreaLines} \cup {AreaFirst}

Frei == Str(<<"f", "r", "e", "i">>)

S40frei  == Str(<<"4", "0", " ", "f", "r", "e", "i">>)
S17frei  == Str(<<"1", "7", " ", "f", "r", "e", "i">>)
S0frei   == Str(<<"0", " ", "f", "r", "e", "i">>)
SM1frei  == Str(<<"-", "1", " ", "f", "r", "e", "i">>)
SM5frei  == Str(<<"-", "5", " ", "f", "r", "e", "i">>)
SPadded  == <<10, 32>> \o Str(<<"5", " ", "f", "r", "e", "i">>) \o <<10>>
SBlank   == <<32, 10>>
SUnder   == Str(<<"1", "_", "0">>)
SPlus    == Str(<<"+", "7", " ", "f", "r", "e", "i">>)
\* "17\r\nfrei", "17" + NBSP + "frei", "17\x1cfrei"
S17crlf  == <<49, 55, 13, 10>> \o Frei
S17nbsp  == <<49, 55, 160>> \o Frei
S17fs    == <<49, 55, 28>> \o Frei
\* 40 in ARABIC-INDIC digits, then " frei"
S40arab  == <<1636, 1632, 32>> \o Frei

StatusTexts ==
    {S40frei, S17frei, S0frei, SM1frei, SM5frei, Frei, SPadded, SBlank,
     SUnder, SPlus, S17crlf, S17nbsp, S17fs, S40arab, <<>>}

W(v) == WidthKey \o <<Colon>> \o v
Height == Str(<<"h", "e", "i", "g", "h", "t", ":", "5", "p", "x">>)

\* "40\r%", "40\x1c%", 35 in ARABIC-INDIC digits with "%"
V40cr   == <<52, 48, 13, 37>>
V40fs   == <<52, 48, 28, 37>>
V35arab == <<1635, 1637, 37>>

BarStyles ==
    {W(Str(<<"4", "0", "%">>)), W(Str(<<"0", "%">>)), W(Str(<<"3", "5",
            "%">>)), W(Str(<<"1", "0", "0", "%">>)), W(Str(<<"1", "2", "0",
            "%">>)),
     W(Str(<<" ", "4", "0", "%", " ">>)), W(Str(<<"4", "0", "%", ";">>)),
             W(Str(<<"%">>)), W(Str(<<"-", "5", "%">>)), W(Str(<<"4", "0",
             "p", "x">>)),
     W(Str(<<"4", "0">>)), W(Str(<<"7", "%">>)), W(V40cr), W(V40fs),
             W(V35arab),
     Height, Height \o <<Semicolon>> \o W(Str(<<"7", "%">>)),
     W(Str(<<"7", "%">>)) \o <<Semicolon>> \o W(Str(<<"9", "%">>))}

NoElem == [found |-> FALSE, span |-> FALSE, text |-> <<>>]
NoSpan == [found |-> TRUE, span |-> FALSE, text |-> <<>>]
Span(text) == [found |-> TRUE, span |-> TRUE, text |-> text]

NoStatus == [found |-> FALSE, text |-> <<>>]
Status(text) == [found |-> TRUE, text |-> text]

NoBar == [found |-> FALSE, has_style |-> FALSE, style |-> <<>>]
BarNoStyle == [found |-> TRUE, has_style |-> FALSE, style |-> <<>>]
Bar(style) == [found |-> TRUE, has_style |-> TRUE, style |-> style]

Twelve == Str(<<"1", "2">>)
Eight  == Str(<<"8">>)

\* the last three: "12\r", "12\x1c", 12 in FULLWIDTH digits
ActElems ==
    {NoElem, NoSpan, Span(Twelve), Span(Str(<<"x">>)), Span(<<32, 55, 10>>),
     Span(Str(<<"-", "3">>)), Span(<<>>), Span(<<49, 50, 13>>), Span(<<49,
             50, 28>>),
     Span(<<65297, 65298>>)}

FreeElems == {NoElem, NoSpan, Span(Eight), Span(Str(<<"v", "o", "l", "l">>)),
        Span(Str(<<"0">>))}

BoulderadoPages ==
    {[act |-> a, free |-> f, status |-> NoStatus, bar |-> NoBar] :
        a \in ActElems, f \in FreeElems}

WebclimberPages ==
    {[act |-> NoElem, free |-> NoElem, status |-> s, bar |-> b] :
        s \in {NoStatus} \cup {Status(t) : t \in StatusTexts},
        b \in {NoBar, BarNoStyle} \cup {Bar(st) : st \in BarStyles}}

EmptyPage == [act |-> NoElem, free |-> NoElem, status |-> NoStatus,
              bar |-> NoBar]

\* requests.get raised
NoAnswer == [ok |-> FALSE, page |-> EmptyPage]
Answer(page) == [ok |-> TRUE, page |-> page]

Responses ==
    {NoAnswer} \cup {Answer(p) : p \in BoulderadoPages \cup WebclimberPages}

\* the last one has a value config.items cannot interpolate
BatchConfigs ==
    {<<Option(KeyType, TypeBoulderado), Option(KeyToken, Token),
       Option(KeyLocation, Erlangen), Option(KeyArea, Boulder)>>,
     <<Option(KeyType, TypeWebclimber), Option(KeyToken, Token),
       Option(KeyClientid, Clientid)>>,
     <<Option(KeyType, TypeKletterhalle), Option(KeyToken, Token)>>,
     <<Option(KeyType, TypeBoulderado), Option(KeyToken, Token),
       Option(KeyArea, Area100)>>}

BatchResponses ==
    {NoAnswer,
     Answer(EmptyPage),
     Answer([act |-> Span(Twelve), free |-> Span(Eight),
             status |-> NoStatus, bar |-> NoBar]),
     Answer([act |-> NoElem, free |-> NoElem, status |-> Status(S40frei),
             bar |-> Bar(W(Str(<<"4", "0", "%">>)))])}

----------------------------------------------------------------------------
(* main                                                                    *)

\* except Exception: print to stderr, continue with the next site
except_continue(i) == [pc |-> "loop", idx |-> i + 1]

\* messages.append(message)
append_message(list, message) == Append(list, message)

\* one iteration of the for loop over sites.  config.items is called outside
\* the try: an exception it raises leaves main, an exception of crawl_site is
\* caught
CrawlNextSite ==
    /\ pc = "loop"
    /\ idx <= Len(sites)
    /\ \E site_name \in {sites[idx]} :
       \E read \in {items(config[site_name])} :
           IF read.exc # ""
           THEN /\ pc' = "raised"
                /\ raised' = read.exc
                /\ UNCHANGED <<idx, messages, dispatched, fetched, stderr,
                               call>>
           ELSE
           \E site_config \in {read.dict} :
           \E outcome \in {crawl_site(site_name, site_config,
                   web[site_name])} :
               /\ dispatched' = Append(dispatched, site_name)
               /\ fetched' = fetched \o outcome.urls
               /\ raised' = raised
               /\ IF ~outcome.ok
                  THEN /\ stderr' = Append(stderr,
                              <<site_name, outcome.exc, outcome.msg>>)
                       /\ messages' = messages
                       /\ pc' = except_continue(idx).pc
                       /\ idx' = except_continue(idx).idx
                       /\ call' = [site |-> site_name,
                                   config |-> site_config,
                                   outcome |-> outcome,
                                   built |-> FALSE, now |-> <<>>]
                  ELSE \E now \in Times :
                       /\ stderr' = stderr
                       /\ messages' = append_message(messages,
                             create_point_message(site_name, site_config,
                                 [free |-> outcome.free,
                                  active |-> outcome.active], now))
                       /\ pc' = "loop"
                       /\ idx' = idx + 1
                       /\ call' = [site |-> site_name,
                                   config |-> site_config,
                                   outcome |-> outcome,
                                   built |-> TRUE, now |-> now]
    /\ UNCHANGED <<sites, config, web, written>>

\* the loop is over: influx_client.write_points(messages), then main returns
WritePoints ==
    /\ pc = "loop"
    /\ idx > Len(sites)
    /\ written' = Append(written, messages)
    /\ pc' = "done"
    /\ UNCHANGED <<sites, config, web, idx, messages, dispatched, fetched,
                   stderr, raised, call>>

Next == CrawlNextSite \/ WritePoints

NoCall == [site |-> <<>>, config |-> <<>>, outcome |-> Raise("", NoText,
        <<>>),
           built |-> FALSE, now |-> <<>>]

\* main before the first iteration, for a given configuration and web
Start(names, cfg, answers) ==
    /\ sites = names
    /\ config = cfg
    /\ web = answers
    /\ pc = "loop"
    /\ idx = 1
    /\ messages = <<>>
    /\ dispatched = <<>>
    /\ fetched = <<>>
    /\ stderr = <<>>
    /\ written = <<>>
    /\ raised = ""
    /\ call = NoCall

\* one configured site, every section and every answer of the web
Init ==
    \E n \in SingleNames, c \in SiteConfigs, r \in Responses :
        Start(<<n>>, n :> c, n :> r)

Spec == Init /\ [][Next]_vars

\* up to MaxSites configured sites
BatchInit ==
    \E k \in 0..MaxSites :
        \E cfg \in [SiteNameSet(k) -> BatchConfigs],
           answers \in [SiteNameSet(k) -> BatchResponses] :
            Start(SubSeq(AllSiteNames, 1, k), cfg, answers)

BatchSpec == BatchInit /\ [][Next]_vars

\* main is one sequential thread: it keeps running until it returns or an
\* exception leaves it
FairBatchSpec == BatchSpec /\ WF_vars(Next)

----------------------------------------------------------------------------
(* What the latest call of crawl_site was called with                      *)

Called == call.site # <<>>
CalledConfig == call.config
CalledAnswer == web[call.site]

HasType(type) ==
    /\ Called
    /\ KeyType \in DOMAIN CalledConfig
    /\ CalledConfig[KeyType] = type

\* crawl_webclimber was entered and its fetch answered with a page
WebclimberParsing ==
    /\ HasType(TypeWebclimber)
    /\ {KeyClientid, KeyToken} \subseteq DOMAIN CalledConfig
    /\ CalledAnswer.ok

StatusTokens == PySplitWs(PyStrip(CalledAnswer.page.status.text))

HasFirstToken == CalledAnswer.page.status.found /\ StatusTokens # <<>>

\* the first token of the status text parses as an integer
FreeKnown == HasFirstToken /\ PyInt(StatusTokens[1]).ok
FreeCount == PyInt(StatusTokens[1]).val

BarParsed == bar_width_of(CalledAnswer.page.bar).exc = ""
BarWidth == bar_width_of(CalledAnswer.page.bar).val

\* crawl_boulderado was entered and its fetch answered with a page
BoulderadoParsing ==
    /\ HasType(TypeBoulderado)
    /\ KeyToken \in DOMAIN CalledConfig
    /\ CalledAnswer.ok

\* the element is there, has a span, and the span's text is an int literal
IntElem(elem) == elem.found /\ elem.span /\ PyInt(elem.text).ok

----------------------------------------------------------------------------
(* Claims                                                                  *)

\* C1: every result an adapter returns has free >= 0 and active >= 0.
C1_NonNegative ==
    (Called /\ call.outcome.ok) =>
        (call.outcome.free >= 0 /\ call.outcome.active >= 0)

\* C2: in crawl_webclimber, a known free count n >= 0 with a bar width of
\* 0% gives the result {free: n, active: 0} and no error.
C2_ZeroWidthDefined ==
    (WebclimberParsing /\ FreeKnown /\ FreeCount >= 0
        /\ BarParsed /\ BarWidth = 0) =>
        /\ call.outcome.ok
        /\ call.outcome.free = FreeCount
        /\ call.outcome.active = 0

\* C3: in crawl_webclimber, a free count known as the integer f with a bar
\* width p in 1..100 gives free = f and active = floor(f / p) * 100 - f.
C3_BranchB ==
    (WebclimberParsing /\ FreeKnown /\ BarParsed /\ BarWidth \in 1..100) =>
        /\ call.outcome.ok
        /\ call.outcome.free = FreeCount
        /\ call.outcome.active =
              PyFloorDiv(FreeCount, BarWidth) * 100 - FreeCount

\* C4: in crawl_webclimber, a status text whose first token is no integer is
\* no error: with a bar width p in 0..100 the result is free = 100 - p and
\* active = p.
C4_BranchA ==
    (WebclimberParsing /\ HasFirstToken /\ ~PyInt(StatusTokens[1]).ok
        /\ BarParsed /\ BarWidth \in 0..100) =>
        /\ call.outcome.ok
        /\ call.outcome.free = 100 - BarWidth
        /\ call.outcome.active = BarWidth
        /\ call.outcome.free + call.outcome.active = 100

C4_Witness ==
    /\ WebclimberParsing
    /\ HasFirstToken
    /\ ~PyInt(StatusTokens[1]).ok
    /\ BarParsed
    /\ BarWidth = 35
    /\ call.outcome.ok
    /\ call.outcome.free = 65
    /\ call.outcome.active = 35

IsBoulderadoUrl(url) == StartsWith(url, BoulderadoPrefix)

IsWebclimberUrl(url) ==
    /\ StartsWith(url, Https)
    /\ Contains(url, WebclimberSuffix)
    /\ ~IsBoulderadoUrl(url)

\* C5: crawl_site fetches only the boulderado URL for type "boulderado",
\* only the webclimber URL for type "webclimber", and for any other type
\* fetches nothing, returns no result and raises an error whose message
\* names the type and the site.
C5_FailsClosed ==
    (Called /\ KeyType \in DOMAIN CalledConfig) =>
        /\ CalledConfig[KeyType] = TypeBoulderado =>
              \A k \in 1..Len(fetched) : IsBoulderadoUrl(fetched[k])
        /\ CalledConfig[KeyType] = TypeWebclimber =>
              \A k \in 1..Len(fetched) : IsWebclimberUrl(fetched[k])
        /\ CalledConfig[KeyType] \notin {TypeBoulderado, TypeWebclimber} =>
              /\ fetched = <<>>
              /\ ~call.outcome.ok
              /\ ~call.built
              /\ messages = <<>>
              /\ call.outcome.exc = "ValueError"
              /\ call.outcome.msg.known
              /\ Contains(call.outcome.msg.text, CalledConfig[KeyType])
              /\ Contains(call.outcome.msg.text, call.site)

C5_Witness ==
    /\ HasType(TypeKletterhalle)
    /\ KeyToken \in DOMAIN CalledConfig
    /\ CalledAnswer.ok
    /\ fetched = <<>>
    /\ Len(stderr) = 1
    /\ stderr[1][2] = "ValueError"
    /\ Contains(stderr[1][3].text, TypeKletterhalle)

\* C6: main always gets through every site and then writes the batch exactly
\* once, whatever sites fail; a failure of every site gives an empty batch.
C6_AlwaysWrites ==
    /\ <>[](pc = "done" /\ dispatched = sites /\ Len(written) = 1)
    /\ [](Len(written) <= 1)
    /\ []((pc = "done" /\ Len(stderr) = Len(sites)) => written = << <<>> >>)

\* C7: the point's location tag is the configured location, or the site name
\* without one; its area tag is there exactly when the configuration has an
\* area, and equals it; its fields are the crawl result; the same inputs at
\* another time give the same point but for the time field.
C7_PointBuilder ==
    call.built =>
        LET m == messages[Len(messages)]
        IN  /\ m.tags.location =
                  IF KeyLocation \in DOMAIN CalledConfig
                  THEN CalledConfig[KeyLocation] ELSE call.site
            /\ ("area" \in DOMAIN m.tags) <=> (KeyArea \in DOMAIN CalledConfig)
            /\ KeyArea \in DOMAIN CalledConfig =>
                  m.tags.area = CalledConfig[KeyArea]
            /\ DOMAIN m.tags \subseteq {"location", "area"}
            /\ m.fields = [free |-> call.outcome.free,
                           active |-> call.outcome.active]
            /\ m.time = call.now
            /\ \A t \in Times :
                  LET again == create_point_message(call.site, CalledConfig,
                                   [free |-> call.outcome.free,
                                    active |-> call.outcome.active], t)
                  IN  /\ again.time = t
                      /\ [again EXCEPT !.time = m.time] = m

C7_Witness ==
    /\ call.built
    /\ KeyLocation \in DOMAIN CalledConfig
    /\ CalledConfig[KeyLocation] # call.site
    /\ KeyArea \notin DOMAIN CalledConfig
    /\ Len(messages) = 1
    /\ messages[1].tags = [location |-> Erlangen]

\* C8: crawl_boulderado returns exactly when both counter elements are
\* there and both hold an integer literal, and then returns {free: the free
\* value, active: the act value}; otherwise it raises and nothing of it
\* reaches the batch.
C8_Boulderado ==
    BoulderadoParsing =>
        LET page == CalledAnswer.page
        IN  /\ call.outcome.ok <=> (IntElem(page.act) /\ IntElem(page.free))
            /\ call.outcome.ok =>
                  /\ call.outcome.free = PyInt(page.free.text).val
                  /\ call.outcome.active = PyInt(page.act.text).val
            /\ ~call.outcome.ok => (~call.built /\ messages = <<>>)

C8_Witness ==
    /\ BoulderadoParsing
    /\ CalledAnswer.page.act.text = Twelve
    /\ CalledAnswer.page.free.text = Eight
    /\ call.outcome.ok
    /\ call.outcome.free = 8
    /\ call.outcome.active = 12

\* C9: in crawl_webclimber, whenever the first token of the status text
\* parses as an integer n, the returned free field is n.
C9_ParsedIsKnown ==
    (WebclimberParsing /\ FreeKnown /\ call.outcome.ok) =>
        call.outcome.free = FreeCount

\* the dict main hands to crawl_site for a site it dispatched
ConfigOf(site_name) == items(config[site_name]).dict

Succeeded(site_name) ==
    crawl_site(site_name, ConfigOf(site_name), web[site_name]).ok

Failed(site_name) == ~Succeeded(site_name)

ResultOf(site_name) ==
    LET outcome == crawl_site(site_name, ConfigOf(site_name), web[site_name])
    IN  [free |-> outcome.free, active |-> outcome.active]

\* C10: main hands each site to crawl_site once, in configuration order, and
\* when main has ended every site was handed over and the batch written
\* holds one point per site that was crawled, in that order, and none for a
\* site whose crawl raised.
C10_OncePerSite ==
    LET crawled == SelectSeq(dispatched, Succeeded)
        failed  == SelectSeq(dispatched, Failed)
    IN  /\ dispatched = SubSeq(sites, 1, idx - 1)
        /\ Len(messages) = Len(crawled)
        /\ \A k \in 1..Len(messages) :
              [messages[k] EXCEPT !.time = <<>>] =
                  create_point_message(crawled[k], ConfigOf(crawled[k]),
                                       ResultOf(crawled[k]), <<>>)
        /\ Len(stderr) = Len(failed)
        /\ \A k \in 1..Len(stderr) : stderr[k][1] = failed[k]
        /\ pc # "loop" => (dispatched = sites /\ written = <<messages>>)

====
